---- MODULE Spec2Model ----
(***************************************************************************)
(* A model of compressed-tensors' quantization configuration and           *)
(* initialization core:                                                    *)
(*   - transform/factory/hadamard.py     HadamardFactory (cached matrices) *)
(*   - quantization/quant_args.py        QuantizationArgs validation       *)
(*   - quantization/quant_scheme.py      QuantizationScheme, presets       *)
(*   - quantization/lifecycle/initialize.py  parameter shape inference     *)
(* Each component has its own specification (SpecFactory, SpecArgs,        *)
(* SpecPreset, SpecInitialize) over the shared variables; the variables of *)
(* the other components stay at their idle value.                          *)
(***************************************************************************)
EXTENDS Integers, Sequences, FiniteSets, TLC

VARIABLES
    \* ---- HadamardFactory (hadamard.py) ----
    randomize,     \* self.scheme.randomize
    weights,       \* self.weights: cache key -> matrix object id
    perms,         \* self.perms: matrix object id -> permutation object id
    built,         \* every matrix _create_weight has constructed, by object id
    permsBuilt,    \* every permutation _create_permutation has drawn, by object id
    generator,     \* number of draws taken from self.generator
    pc,            \* per thread: position inside create_transform
    frame,         \* per thread: the locals of its create_transform call
    transforms,    \* the HadamardTransform objects returned so far
    calls,         \* number of create_transform calls started
    \* ---- QuantizationArgs (quant_args.py) ----
    raw,           \* the keyword arguments given to QuantizationArgs(...)
    outcome,       \* pending, or the constructed object, or the error raised
    \* ---- preset registry (quant_scheme.py) ----
    heap,          \* the QuantizationArgs objects that exist, by object id
    schemes,       \* the QuantizationScheme objects returned by lookups
    lastReturn,    \* what the latest lookup returned (a snapshot) or raised
    lookups,       \* number of preset_name_to_scheme calls
    mutations,     \* number of assignments callers made to returned objects
    \* ---- initialize_module_for_quantization (initialize.py) ----
    layer,         \* the module: its type, attributes, weight and stamps
    request,       \* the other arguments of the call
    events,        \* parameters attached, warnings emitted, error raised, in order
    result,        \* ready, then returned or raised
    \* ---- HadamardTransform (hadamard.py) ----
    storage,       \* the tensors the transform refers to: base matrix, permutation
    hadamard,      \* the HadamardTransform object
    fwdValue,      \* the value forward is called with
    fwdOutput,     \* what forward returned
    fwdState,      \* ready, then returned
    \* ---- round_to_quantized_type (quant_args.py) ----
    tensor,        \* the caller's tensor
    roundArgs,     \* the QuantizationArgs of the call (type, num_bits)
    rounded,       \* what the call returned or raised
    roundState     \* ready, then returned or raised

factoryVars == <<randomize, weights, perms, built, permsBuilt, generator,
                 pc, frame, transforms, calls>>

argsVars == <<raw, outcome>>

presetVars == <<heap, schemes, lastReturn, lookups, mutations>>

initializeVars == <<layer, request, events, result>>

forwardVars == <<storage, hadamard, fwdValue, fwdOutput, fwdState>>

roundVars == <<tensor, roundArgs, rounded, roundState>>

vars == <<factoryVars, argsVars, presetVars, initializeVars, forwardVars, roundVars>>

\* What a step of one component leaves alone: the other components.
OnlyFactory == UNCHANGED <<argsVars, presetVars, initializeVars, forwardVars, roundVars>>
OnlyArgs == UNCHANGED <<factoryVars, presetVars, initializeVars, forwardVars, roundVars>>
OnlyPreset == UNCHANGED <<factoryVars, argsVars, initializeVars, forwardVars, roundVars>>
OnlyInitialize == UNCHANGED <<factoryVars, argsVars, presetVars, forwardVars, roundVars>>
OnlyRound == UNCHANGED <<factoryVars, argsVars, presetVars, initializeVars, forwardVars>>
OnlyForward == UNCHANGED <<factoryVars, argsVars, presetVars, initializeVars, roundVars>>

\* Python's None
None == "None"

(***************************************************************************)
(* HadamardFactory                                                         *)
(***************************************************************************)

\* bound of the factory model: create_transform calls per run
MaxCalls == 3

\* Two threads of the surrounding system may be inside create_transform at once.
Threads == {"t1", "t2"}

\* The modules the factory is applied to, as create_transform reads them:
\* get_transform_size(module, ...), module.weight.dtype,
\* get_offloaded_device(module), get_execution_device(module), and the
\* TransformArgs (inverse) that come with the module.  The first two resolve
\* to one cache key on different execution devices; each of the others
\* differs from the first in exactly one component of the key.
Modules ==
    { [size |-> 2, dtype |-> "float16", offload |-> "cpu",  exec |-> "cuda", inverse |-> FALSE],
      [size |-> 2, dtype |-> "float16", offload |-> "cpu",  exec |-> "cpu",  inverse |-> TRUE],
      [size |-> 1, dtype |-> "float16", offload |-> "cpu",  exec |-> "cuda", inverse |-> FALSE],
      [size |-> 2, dtype |-> "float32", offload |-> "cpu",  exec |-> "cuda", inverse |-> TRUE],
      [size |-> 2, dtype |-> "float16", offload |-> "cuda", exec |-> "cuda", inverse |-> FALSE] }

\* mutant of CacheKey: the execution device leaks into the key
CacheKeyWithExec(module) == <<module.size, module.dtype, module.offload, module.exec>>

\* hadamard.py:62  self.weights.get(size, dtype, device, ...): the positional
\* arguments are the key; construct_device travels in factory_kwargs only.
CacheKey(module) == <<module.size, module.dtype, module.offload>>

\* hadamard.py:61
FactoryKwargs(module) == [construct_device |-> module.exec]

\* hadamard.py:66-76  _create_weight: the matrix is built on construct_device
\* and moved to `device` before it is wrapped in a Parameter.
CreateWeight(size, dtype, device, construct_device) ==
    [size |-> size, dtype |-> dtype, device |-> device,
     constructed_on |-> construct_device]

\* mutant of RandPerms: the indices are drawn independently, repeats included
RandPermsWithRepeats(n) == [1..n -> 0..(n - 1)]

\* All orderings of 0..n-1, as sequences (torch.randperm's range).
RandPerms(n) ==
    {p \in [1..n -> 0..(n - 1)] : \A i, j \in 1..n : i # j => p[i] # p[j]}

\* mutant of DictHas: the cache is never consulted
DictHasNever(cache, key) == FALSE

\* ParameterizedDefaultDict (compressed_tensors.utils.helpers): a dict whose
\* missing keys are built by the factory callback and stored; a present key
\* returns the stored value (get-or-insert, first writer wins).
DictHas(cache, key) == key \in DOMAIN cache

\* self[key] = value
DictInsert(cache, key, value) == (key :> value) @@ cache

FactoryIdle ==
    /\ randomize = FALSE /\ weights = << >> /\ perms = << >> /\ built = << >>
    /\ permsBuilt = << >> /\ generator = 0 /\ pc = [t \in Threads |-> "idle"]
    /\ frame = [t \in Threads |-> None] /\ transforms = {} /\ calls = 0

FactoryInit ==
    /\ randomize \in BOOLEAN
    /\ weights = << >>
    /\ perms = << >>
    /\ built = << >>
    /\ permsBuilt = << >>
    /\ generator = 0
    /\ pc = [t \in Threads |-> "idle"]
    /\ frame = [t \in Threads |-> None]
    /\ transforms = {}
    /\ calls = 0

\* hadamard.py:47-61  a thread enters create_transform(module, args): the
\* assert holds (every module drawn has a weight); size, dtype, device and
\* exec_device are read off the module.
EnterCreateTransform(t) ==
    /\ pc[t] = "idle"
    /\ calls < MaxCalls
    /\ \E module \in Modules :
          frame' = [frame EXCEPT ![t] =
                       [module |-> module, inverse |-> module.inverse,
                        key |-> CacheKey(module),
                        factory_kwargs |-> FactoryKwargs(module),
                        weight |-> None]]
    /\ pc' = [pc EXCEPT ![t] = "weights_get"]
    /\ calls' = calls + 1
    /\ UNCHANGED <<randomize, weights, perms, built, permsBuilt, generator, transforms>>
    /\ OnlyFactory

\* hadamard.py:62  weight = self.weights.get(size, dtype, device, factory_kwargs=...)
WeightsGet(t) ==
    /\ pc[t] = "weights_get"
    /\ LET key == frame[t].key
           id == Len(built) + 1
       IN IF DictHas(weights, key)
          THEN /\ frame' = [frame EXCEPT ![t].weight = weights[key]]
               /\ UNCHANGED <<weights, built>>
          ELSE /\ built' = Append(built,
                      CreateWeight(key[1], key[2], key[3],
                                   frame[t].factory_kwargs.construct_device))
               /\ weights' = DictInsert(weights, key, id)
               /\ frame' = [frame EXCEPT ![t].weight = id]
    /\ pc' = [pc EXCEPT ![t] = "perms_get"]
    /\ UNCHANGED <<randomize, perms, permsBuilt, generator, transforms, calls>>
    /\ OnlyFactory

\* hadamard.py:63-64, 78-80  perm = self.perms[weight] if randomize else None,
\* then the HadamardTransform is returned.
PermsGet(t) ==
    /\ pc[t] = "perms_get"
    /\ LET weight == frame[t].weight
           id == Len(permsBuilt) + 1
           ret(perm) == [module |-> frame[t].module, inverse |-> frame[t].inverse,
                         weight |-> weight, perm |-> perm]
       IN IF ~randomize
          THEN /\ transforms' = transforms \cup {ret(None)}
               /\ UNCHANGED <<perms, permsBuilt, generator>>
          ELSE IF DictHas(perms, weight)
          THEN /\ transforms' = transforms \cup {ret(perms[weight])}
               /\ UNCHANGED <<perms, permsBuilt, generator>>
          ELSE \E data \in RandPerms(built[weight].size) :
               /\ permsBuilt' = Append(permsBuilt, [weight |-> weight, data |-> data])
               /\ perms' = DictInsert(perms, weight, id)
               /\ generator' = generator + 1
               /\ transforms' = transforms \cup {ret(id)}
    /\ pc' = [pc EXCEPT ![t] = "idle"]
    /\ frame' = [frame EXCEPT ![t] = None]
    /\ UNCHANGED <<randomize, weights, built, calls>>
    /\ OnlyFactory

FactoryNext ==
    \E t \in Threads :
        \/ EnterCreateTransform(t)
        \/ WeightsGet(t)
        \/ PermsGet(t)

(***************************************************************************)
(* QuantizationArgs (quant_args.py)                                        *)
(***************************************************************************)

\* bounds of the argument model
MaxGroupSize == 2
MaxBlockLen == 5
MaxListLen == 3

\* An Optional[int]: << >> is None, <<n>> is the integer n.
NoInt == << >>
SomeInt(n) == <<n>>

\* quant_args.py:93-103  QuantizationStrategy values
Strategies == {"tensor", "channel", "group", "block", "token", "tensor_group"}

\* quant_args.py:106-118, 173  dynamic: Union[DynamicType, bool]; the two
\* booleans are written "True" and "False", DynamicType.LOCAL is "local".
DynamicValues == {"False", "True", "local"}

\* mutant of Truthy: DynamicType.LOCAL counts as not dynamic
TruthyOnlyTrue(dynamic) == dynamic = "True"

\* bool(dynamic): False is the one falsy value
Truthy(dynamic) == dynamic # "False"

\* block_structure as given: None, a str (its characters), or a list of ints.
BNone == [kind |-> "none"]
BStr(chars) == [kind |-> "str", chars |-> chars]
BList(items) == [kind |-> "list", items |-> items]

\* The characters block_structure strings are drawn from.
Chars == {"0", "2", "x", "-", "a"}
Digits == {"0", "2"}
DigitValue(c) == IF c = "2" THEN 2 ELSE 0

SeqsUpTo(S, n) == UNION {[1..k -> S] : k \in 0..n}

\* str.split("x"): the pieces between separators, empty pieces kept.
RECURSIVE SplitOn(_, _, _)
SplitOn(chars, sep, piece) ==
    IF chars = << >> THEN <<piece>>
    ELSE IF Head(chars) = sep THEN <<piece>> \o SplitOn(Tail(chars), sep, << >>)
    ELSE SplitOn(Tail(chars), sep, Append(piece, Head(chars)))

Split(chars, sep) == SplitOn(chars, sep, << >>)

\* int(x) for a str of these characters: an optional "-" and one or more digits.
RECURSIVE DigitsValue(_, _)
DigitsValue(chars, acc) ==
    IF chars = << >> THEN acc
    ELSE DigitsValue(Tail(chars), 10 * acc + DigitValue(Head(chars)))

IsDigits(chars) == chars # << >> /\ \A i \in DOMAIN chars : chars[i] \in Digits

IntParses(chars) ==
    \/ IsDigits(chars)
    \/ (chars # << >> /\ Head(chars) = "-" /\ IsDigits(Tail(chars)))

IntOf(chars) ==
    IF Head(chars) = "-" THEN 0 - DigitsValue(Tail(chars), 0)
    ELSE DigitsValue(chars, 0)

\* quant_args.py:197-208  validate_group
ValidateGroup(value) ==
    IF value = NoInt THEN [ok |-> TRUE, value |-> value]
    ELSE IF value[1] < -1 THEN [ok |-> FALSE]
    ELSE [ok |-> TRUE, value |-> value]

\* quant_args.py:210-230  validate_block_structure
ValidateBlockStructure(value) ==
    IF value.kind = "none" THEN [ok |-> TRUE, value |-> BNone]
    ELSE IF value.kind = "str"
    THEN LET pieces == Split(value.chars, "x")
         IN IF \A i \in DOMAIN pieces : IntParses(pieces[i])
            THEN [ok |-> TRUE,
                  value |-> BList([i \in DOMAIN pieces |-> IntOf(pieces[i])])]
            ELSE [ok |-> FALSE]
    ELSE IF Len(value.items) # 2 THEN [ok |-> FALSE]
    ELSE [ok |-> TRUE, value |-> BList(value.items)]

\* quant_args.py:239-247  validate_actorder: a bool becomes GROUP or None.
ValidateActorder(value) ==
    IF value = "True" THEN "group"
    ELSE IF value = "False" THEN None
    ELSE value

\* mutant of InferStrategy: the CHANNEL sentinel is read as "no grouping"
InferStrategySentinelTensor(strategy, group_size) ==
    IF strategy # None THEN [ok |-> TRUE, value |-> strategy]
    ELSE IF group_size = NoInt THEN [ok |-> TRUE, value |-> "tensor"]
    ELSE IF group_size[1] > 0 THEN [ok |-> TRUE, value |-> "group"]
    ELSE IF group_size[1] = -1 THEN [ok |-> TRUE, value |-> "tensor"]
    ELSE [ok |-> FALSE]

\* quant_args.py:264-276  infer strategy
InferStrategy(strategy, group_size) ==
    IF strategy # None THEN [ok |-> TRUE, value |-> strategy]
    ELSE IF group_size = NoInt THEN [ok |-> TRUE, value |-> "tensor"]
    ELSE IF group_size[1] > 0 THEN [ok |-> TRUE, value |-> "group"]
    ELSE IF group_size[1] = -1 THEN [ok |-> TRUE, value |-> "channel"]
    ELSE [ok |-> FALSE]

\* mutant of SupportedStrategies: CHANNEL is let through
SupportedStrategiesWithChannel == {"token", "tensor", "tensor_group", "group", "channel"}

\* quant_args.py:302-307  supported_strategies
SupportedStrategies == {"token", "tensor", "tensor_group", "group"}

\* quant_args.py:313-317  local is only supported for strategy tensor_group
LocalAllowed(dynamic, strategy) ==
    ~(dynamic = "local" /\ strategy # "tensor_group")

\* mutant of InferObserver: a given observer survives dynamic=True
InferObserverKeepsGiven(dynamic, observer) ==
    IF Truthy(dynamic)
    THEN IF observer # None THEN observer
         ELSE IF dynamic = "local" THEN "minmax" ELSE observer
    ELSE IF observer = None THEN "minmax" ELSE observer

\* quant_args.py:319-334  infer observer w.r.t. dynamic
InferObserver(dynamic, observer) ==
    IF Truthy(dynamic)
    THEN IF observer # None
         THEN IF dynamic = "True" THEN None ELSE observer
         ELSE IF dynamic = "local" THEN "minmax" ELSE observer
    ELSE IF observer = None THEN "minmax" ELSE observer

\* quant_args.py:319-326  the warning of the observer inference
ObserverWarnings(dynamic, observer) ==
    IF Truthy(dynamic) /\ observer # None /\ dynamic = "True" /\ observer # "memoryless"
    THEN <<"No observer is used for dynamic quantization, setting to None">>
    ELSE << >>

\* quant_args.py:255-339  validate_model_after
ValidateModelAfter(model) ==
    LET inferred == InferStrategy(model.strategy, model.group_size)
        group_size == model.group_size
        strategy == inferred.value
    IN IF ~inferred.ok
       THEN [ok |-> FALSE, error |-> "Invalid group size"]
       ELSE IF strategy = "group" /\ (group_size = NoInt \/ group_size[1] <= 0)
       THEN [ok |-> FALSE, error |-> "strategy requires group_size to be set to a positive value"]
       ELSE IF /\ group_size # NoInt /\ group_size[1] > 0
               /\ strategy \notin {"group", "tensor_group"}
       THEN [ok |-> FALSE, error |-> "group_size requires strategy to be set to 'group'"]
       ELSE IF model.actorder # None /\ strategy # "group"
       THEN [ok |-> FALSE, error |-> "Must use group quantization strategy in order to apply activation ordering"]
       ELSE IF Truthy(model.dynamic) /\ strategy \notin SupportedStrategies
       THEN [ok |-> FALSE, error |-> "unsupported strategy for dynamic quantization"]
       ELSE IF Truthy(model.dynamic) /\ ~LocalAllowed(model.dynamic, strategy)
       THEN [ok |-> FALSE, error |-> "local is only supported for strategy tensor_group"]
       ELSE [ok |-> TRUE,
             obj |-> [model EXCEPT !.strategy = strategy,
                                   !.observer = InferObserver(model.dynamic, model.observer)],
             warnings |-> ObserverWarnings(model.dynamic, model.observer)]

\* quant_args.py:146-339  QuantizationArgs(**raw): the field validators, then
\* (only when every field validated) the model validator.
ConstructArgs(kwargs) ==
    LET g == ValidateGroup(kwargs.group_size)
        b == ValidateBlockStructure(kwargs.block_structure)
    IN IF ~g.ok THEN [ok |-> FALSE, error |-> "Invalid group size"]
       ELSE IF ~b.ok THEN [ok |-> FALSE, error |-> "Invalid block_structure"]
       ELSE ValidateModelAfter(
                [kwargs EXCEPT !.group_size = g.value,
                               !.block_structure = b.value,
                               !.actorder = ValidateActorder(kwargs.actorder)])

\* quant_args.py:167-175  the field defaults
DefaultKwargs ==
    [num_bits |-> 8, type |-> "int", symmetric |-> TRUE, group_size |-> NoInt,
     strategy |-> None, block_structure |-> BNone, dynamic |-> "False",
     actorder |-> None, observer |-> None]

GroupSizes == {NoInt} \cup {SomeInt(n) : n \in -2..MaxGroupSize}
Observers == {None, "minmax", "memoryless"}
Actorders == {None, "True", "False", "group", "weight"}

BlockInputs ==
    {BNone} \cup {BStr(c) : c \in SeqsUpTo(Chars, MaxBlockLen)}
            \cup {BList(l) : l \in SeqsUpTo({-1, 0, 2}, MaxListLen)}

\* The keyword arguments the constructor is called with: every combination of
\* the cross-validated fields, and every block_structure beside the defaults.
KwargsInputs ==
    { [DefaultKwargs EXCEPT !.group_size = g, !.strategy = s, !.dynamic = d,
                            !.actorder = a, !.observer = o] :
        g \in GroupSizes, s \in Strategies \cup {None}, d \in DynamicValues,
        a \in Actorders, o \in Observers }
    \cup { [DefaultKwargs EXCEPT !.block_structure = b, !.strategy = s] :
        b \in BlockInputs, s \in {None, "block"} }

Pending == [state |-> "pending"]

ArgsInit ==
    /\ raw \in KwargsInputs
    /\ outcome = Pending

\* One call of the constructor on the given keyword arguments.
Construct ==
    /\ outcome = Pending
    /\ outcome' = [state |-> "done", result |-> ConstructArgs(raw)]
    /\ UNCHANGED raw
    /\ OnlyArgs

ArgsNext == Construct

(***************************************************************************)
(* QuantizationScheme and the preset registry (quant_scheme.py)            *)
(***************************************************************************)

\* bounds of the preset model
MaxLookups == 2
MaxMutations == 2

Roles == {"weights", "input_activations", "output_activations"}

\* quant_scheme.py:52-81  QuantizationScheme.validate_model_after over the
\* three role specs; a role is [present |-> FALSE] or [present |-> TRUE, args].
Absent == [present |-> FALSE]
Present(args) == [present |-> TRUE, args |-> args]

SchemeGroupWarning(weightsArgs, inputs) ==
    IF /\ inputs.present /\ weightsArgs.present
       /\ weightsArgs.args.strategy = "group"
       /\ inputs.args.strategy = "group"
       /\ weightsArgs.args.group_size # inputs.args.group_size
    THEN <<"Using GROUP strategy for both weights and input_activations with different group sizes">>
    ELSE << >>

ConstructScheme(weightsArgs, inputs, outputs) ==
    IF inputs.present /\ inputs.args.actorder # None
    THEN [ok |-> FALSE, error |-> "Cannot apply actorder to input activations"]
    ELSE IF outputs.present /\ outputs.args.actorder # None
    THEN [ok |-> FALSE, error |-> "Cannot apply actorder to output activations"]
    ELSE [ok |-> TRUE, warnings |-> SchemeGroupWarning(weightsArgs, inputs)]

\* str.upper() on a name given as its characters.
LowerLetters == <<"a", "b", "c", "d", "e", "f", "g", "h", "i", "j", "k", "l", "m",
                  "n", "o", "p", "q", "r", "s", "t", "u", "v", "w", "x", "y", "z">>
UpperLetters == <<"A", "B", "C", "D", "E", "F", "G", "H", "I", "J", "K", "L", "M",
                  "N", "O", "P", "Q", "R", "S", "T", "U", "V", "W", "X", "Y", "Z">>

UpperChar(c) ==
    IF \E i \in DOMAIN LowerLetters : LowerLetters[i] = c
    THEN UpperLetters[CHOOSE i \in DOMAIN LowerLetters : LowerLetters[i] = c]
    ELSE c

\* quant_scheme.py:96  name.upper()
Upper(name) == [i \in DOMAIN name |-> UpperChar(name[i])]

\* quant_scheme.py:119-284  the preset templates: the keyword arguments each
\* QuantizationArgs(...) of the module is built from, by template object id.
TemplateKwargs ==
    <<  \* 1: NVFP4A16.weights
        [DefaultKwargs EXCEPT !.num_bits = 4, !.type = "float", !.strategy = "tensor_group",
                              !.group_size = SomeInt(16)],
        \* 2: NVFP4.weights
        [DefaultKwargs EXCEPT !.num_bits = 4, !.type = "float", !.strategy = "tensor_group",
                              !.group_size = SomeInt(16)],
        \* 3: NVFP4.input_activations
        [DefaultKwargs EXCEPT !.num_bits = 4, !.type = "float", !.strategy = "tensor_group",
                              !.dynamic = "local", !.group_size = SomeInt(16)],
        \* 4: INT8_W8A8.weights
        [DefaultKwargs EXCEPT !.strategy = "channel"],
        \* 5: INT8_W8A8.input_activations
        [DefaultKwargs EXCEPT !.strategy = "token", !.dynamic = "True"],
        \* 6: W8A16.weights
        [DefaultKwargs EXCEPT !.strategy = "channel"],
        \* 7: W4A16.weights
        [DefaultKwargs EXCEPT !.num_bits = 4, !.strategy = "group", !.group_size = SomeInt(128)],
        \* 8: W4A16_ASYM.weights
        [DefaultKwargs EXCEPT !.num_bits = 4, !.strategy = "group", !.group_size = SomeInt(128),
                              !.symmetric = FALSE],
        \* 9: INT8_W4A8.weights
        [DefaultKwargs EXCEPT !.num_bits = 4, !.strategy = "group", !.group_size = SomeInt(128)],
        \* 10: INT8_W4A8.input_activations
        [DefaultKwargs EXCEPT !.strategy = "token", !.dynamic = "True"],
        \* 11: FP8.weights
        [DefaultKwargs EXCEPT !.type = "float", !.strategy = "tensor"],
        \* 12: FP8.input_activations
        [DefaultKwargs EXCEPT !.type = "float", !.strategy = "tensor"],
        \* 13: FP8_DYNAMIC.weights
        [DefaultKwargs EXCEPT !.type = "float", !.strategy = "channel"],
        \* 14: FP8_DYNAMIC.input_activations
        [DefaultKwargs EXCEPT !.type = "float", !.strategy = "token", !.dynamic = "True"],
        \* 15: FP8_BLOCK.weights
        [DefaultKwargs EXCEPT !.type = "float", !.strategy = "block",
                              !.block_structure = BList(<<128, 128>>)],
        \* 16: FP8_BLOCK.input_activations
        [DefaultKwargs EXCEPT !.type = "float", !.strategy = "group", !.dynamic = "True",
                              !.group_size = SomeInt(128)] >>

TemplateIds == DOMAIN TemplateKwargs

\* The template objects as the module's import constructs them.
TemplateArgs == [id \in TemplateIds |-> ConstructArgs(TemplateKwargs[id]).obj]

\* quant_scheme.py:119-284  the template dicts: role -> template object
UNQUANTIZED == << >>
NVFP4A16 == ("weights" :> 1)
NVFP4 == ("weights" :> 2) @@ ("input_activations" :> 3)
INT8_W8A8 == ("weights" :> 4) @@ ("input_activations" :> 5)
W8A16 == ("weights" :> 6)
W4A16 == ("weights" :> 7)
W4A16_ASYM == ("weights" :> 8)
INT8_W4A8 == ("weights" :> 9) @@ ("input_activations" :> 10)
FP8 == ("weights" :> 11) @@ ("input_activations" :> 12)
FP8_DYNAMIC == ("weights" :> 13) @@ ("input_activations" :> 14)
FP8_BLOCK == ("weights" :> 15) @@ ("input_activations" :> 16)

\* quant_scheme.py:286-303  PRESET_SCHEMES
PRESET_SCHEMES ==
    (<<"U", "N", "Q", "U", "A", "N", "T", "I", "Z", "E", "D">> :> UNQUANTIZED) @@
    (<<"W", "8", "A", "1", "6">> :> W8A16) @@
    (<<"W", "4", "A", "1", "6">> :> W4A16) @@
    (<<"W", "4", "A", "1", "6", "_", "A", "S", "Y", "M">> :> W4A16_ASYM) @@
    (<<"W", "8", "A", "8">> :> INT8_W8A8) @@
    (<<"I", "N", "T", "8">> :> INT8_W8A8) @@
    (<<"W", "4", "A", "8">> :> INT8_W4A8) @@
    (<<"F", "P", "8">> :> FP8) @@
    (<<"F", "P", "8", "_", "D", "Y", "N", "A", "M", "I", "C">> :> FP8_DYNAMIC) @@
    (<<"F", "P", "8", "_", "B", "L", "O", "C", "K">> :> FP8_BLOCK) @@
    (<<"N", "V", "F", "P", "4", "A", "1", "6">> :> NVFP4A16) @@
    (<<"N", "V", "F", "P", "4">> :> NVFP4)

\* The names preset_name_to_scheme is called with: a preset in upper, lower and
\* mixed case, an alias and another preset with two roles, the empty preset,
\* and a name that is no preset.
NameInputs ==
    { <<"w", "8", "a", "1", "6">>,
      <<"W", "8", "A", "1", "6">>,
      <<"W", "8", "a", "1", "6">>,
      <<"i", "n", "t", "8">>,
      <<"f", "p", "8", "_", "b", "l", "o", "c", "k">>,
      <<"u", "n", "q", "u", "a", "n", "t", "i", "z", "e", "d">>,
      <<"B", "O", "G", "U", "S">> }

\* The targets every lookup binds.
Targets == <<"Linear">>

RoleIndex(role) ==
    CASE role = "weights" -> 1
      [] role = "input_activations" -> 2
      [] role = "output_activations" -> 3

\* mutant of DeepCopy: the template dict is copied, its values are not
ShallowCopy(template, allocated) == template

\* quant_scheme.py:104  deepcopy(PRESET_SCHEMES[name]): a new dict whose values
\* are new objects, allocated after the `allocated` objects that exist.
DeepCopy(template, allocated) ==
    [r \in DOMAIN template |->
        allocated + Cardinality({q \in DOMAIN template : RoleIndex(q) <= RoleIndex(r)})]

\* A reference held in a dict or a scheme field; 0 is None.
Ref(dict, role) == IF role \in DOMAIN dict THEN dict[role] ELSE 0

\* The value a reference denotes in the heap h.
Deref(h, ref) == IF ref = 0 THEN Absent ELSE Present(h[ref])

\* What a caller does to the QuantizationArgs of a scheme it got back.
ArgsPatches == {"strategy", "observer"}

PatchArgs(args, patch) ==
    CASE patch = "strategy" ->
            [args EXCEPT !.strategy = IF @ = "token" THEN "tensor" ELSE "token"]
      [] patch = "observer" -> [args EXCEPT !.observer = "mse"]

PresetIdle ==
    /\ heap = << >> /\ schemes = << >> /\ lastReturn = [state |-> "idle"]
    /\ lookups = 0 /\ mutations = 0

\* The state after the module is imported: the template objects exist.
PresetInit ==
    /\ heap = TemplateArgs
    /\ schemes = << >>
    /\ lastReturn = [state |-> "none"]
    /\ lookups = 0
    /\ mutations = 0

\* quant_scheme.py:89-108  preset_name_to_scheme(name, targets)
PresetNameToScheme ==
    /\ lookups < MaxLookups
    /\ lookups' = lookups + 1
    /\ \E name \in NameInputs :
        LET key == Upper(name)
        IN IF key \notin DOMAIN PRESET_SCHEMES
           THEN /\ lastReturn' = [state |-> "raised", name |-> name, error |-> "KeyError",
                                  available |-> DOMAIN PRESET_SCHEMES]
                /\ UNCHANGED <<heap, schemes>>
           ELSE LET template == PRESET_SCHEMES[key]
                    scheme_args == DeepCopy(template, Len(heap))
                    fresh == {scheme_args[r] : r \in DOMAIN scheme_args} \ DOMAIN heap
                    heap2 == [id \in DOMAIN heap \cup fresh |->
                                 IF id \in DOMAIN heap THEN heap[id]
                                 ELSE heap[template[CHOOSE r \in DOMAIN template :
                                                        scheme_args[r] = id]]]
                    validated == ConstructScheme(
                                     Deref(heap2, Ref(scheme_args, "weights")),
                                     Deref(heap2, Ref(scheme_args, "input_activations")),
                                     Deref(heap2, Ref(scheme_args, "output_activations")))
                IN IF ~validated.ok
                   THEN /\ lastReturn' = [state |-> "raised", name |-> name,
                                          error |-> validated.error,
                                          available |-> {}]
                        /\ heap' = heap2
                        /\ UNCHANGED schemes
                   ELSE /\ heap' = heap2
                        /\ schemes' = Append(schemes,
                              [targets |-> Targets,
                               weights |-> Ref(scheme_args, "weights"),
                               input_activations |-> Ref(scheme_args, "input_activations"),
                               output_activations |-> Ref(scheme_args, "output_activations")])
                        /\ lastReturn' =
                              [state |-> "returned", name |-> name,
                               scheme |-> Len(schemes) + 1,
                               value |-> [r \in Roles |-> Deref(heap2, Ref(scheme_args, r))],
                               warnings |-> validated.warnings]
    /\ UNCHANGED mutations
    /\ OnlyPreset

\* A caller assigns a field of the QuantizationArgs of a returned scheme.
MutateArgs ==
    /\ mutations < MaxMutations
    /\ mutations' = mutations + 1
    /\ \E i \in DOMAIN schemes, role \in Roles, patch \in ArgsPatches :
          /\ schemes[i][role] # 0
          /\ heap' = [heap EXCEPT ![schemes[i][role]] = PatchArgs(@, patch)]
    /\ UNCHANGED <<schemes, lastReturn, lookups>>
    /\ OnlyPreset

\* A caller assigns None to a role of a returned scheme.
MutateScheme ==
    /\ mutations < MaxMutations
    /\ mutations' = mutations + 1
    /\ \E i \in DOMAIN schemes, role \in Roles :
          /\ schemes[i][role] # 0
          /\ schemes' = [schemes EXCEPT ![i][role] = 0]
    /\ UNCHANGED <<heap, lastReturn, lookups>>
    /\ OnlyPreset

PresetNext ==
    \/ PresetNameToScheme
    \/ MutateArgs
    \/ MutateScheme

(***************************************************************************)
(* initialize_module_for_quantization (lifecycle/initialize.py)            *)
(***************************************************************************)

\* bounds of the initializer model: weight dimensions and group sizes
MaxRows == 3
MaxCols == 4
MaxGroup == 3

\* what a call leaves behind: attached parameters, warnings, the error raised
ParamEvent(base_name, suffix, shape, dtype) ==
    [kind |-> "param", role |-> base_name, name |-> base_name \o suffix,
     shape |-> shape, dtype |-> dtype]
WarnEvent(base_name, text) == [kind |-> "warn", role |-> base_name, text |-> text]
RaiseEvent(base_name, error) == [kind |-> "raise", role |-> base_name, error |-> error]

\* weight_shape is None
NoShape == << >>

\* math.ceil(a / b) for integers a >= 0 and b # 0 (true division, then ceil)
CeilDiv(a, b) ==
    IF b > 0 THEN (a + b - 1) \div b
    ELSE 0 - (a \div (0 - b))

\* a % b # 0 for integers a >= 0 and b # 0 (Python's sign-of-divisor modulo)
Ragged(a, b) == IF b > 0 THEN a % b # 0 ELSE a % (0 - b) # 0

Max(a, b) == IF a >= b THEN a ELSE b

\* initialize.py:178-184  GROUP / TENSOR_GROUP: (out, max(ceil(in / group_size), 1));
\* the division raises for a group_size that is None or 0.
GroupShape(weight_shape, group_size) ==
    IF group_size = NoInt
    THEN [ok |-> FALSE, error |-> "TypeError", warnings |-> << >>]
    ELSE IF group_size[1] = 0
    THEN [ok |-> FALSE, error |-> "ZeroDivisionError", warnings |-> << >>]
    ELSE [ok |-> TRUE, warnings |-> << >>,
          shape |-> <<weight_shape[1], Max(CeilDiv(weight_shape[2], group_size[1]), 1)>>]

\* mutant of RaggedWarning: only the rows are looked at
RaggedWarningRowsOnly(rows, cols, block_height, block_width) ==
    IF Ragged(rows, block_height)
    THEN <<WarnEvent("weight", "Block quantization: tensor shape does not divide evenly by block structure")>>
    ELSE << >>

\* initialize.py:194-201  the ragged-division warning
RaggedWarning(rows, cols, block_height, block_width) ==
    IF Ragged(rows, block_height) \/ Ragged(cols, block_width)
    THEN <<WarnEvent("weight", "Block quantization: tensor shape does not divide evenly by block structure")>>
    ELSE << >>

\* initialize.py:185-203  BLOCK on a weight: (ceil(rows / bh), ceil(cols / bw))
BlockShape(weight_shape, block_structure) ==
    IF block_structure.kind = "none"
    THEN [ok |-> FALSE, error |-> "ValueError: Block quantization requires block_structure to be specified",
          warnings |-> << >>]
    ELSE IF Len(block_structure.items) # 2
    THEN [ok |-> FALSE, error |-> "ValueError: unpack", warnings |-> << >>]
    ELSE LET block_height == block_structure.items[1]
             block_width == block_structure.items[2]
             rows == weight_shape[Len(weight_shape) - 1]
             cols == weight_shape[Len(weight_shape)]
         IN IF block_height = 0 \/ block_width = 0
            THEN [ok |-> FALSE, error |-> "ZeroDivisionError", warnings |-> << >>]
            ELSE [ok |-> TRUE,
                  warnings |-> RaggedWarning(rows, cols, block_height, block_width),
                  shape |-> <<CeilDiv(rows, block_height), CeilDiv(cols, block_width)>>]

\* initialize.py:168-210  2. infer the expected scale / zero point shape
ExpectedShape(base_name, quantization_args, weight_shape) ==
    LET strategy == quantization_args.strategy
        default == IF strategy = "token" THEN <<1, 1>> ELSE <<1>>
    IN IF base_name = "weight" /\ weight_shape # NoShape
       THEN IF strategy = "channel"
            THEN [ok |-> TRUE, warnings |-> << >>, shape |-> <<weight_shape[1], 1>>]
            ELSE IF strategy \in {"tensor_group", "group"}
            THEN GroupShape(weight_shape, quantization_args.group_size)
            ELSE IF strategy = "block"
            THEN BlockShape(weight_shape, quantization_args.block_structure)
            ELSE [ok |-> TRUE, warnings |-> << >>, shape |-> default]
       ELSE IF strategy = "block"
       THEN [ok |-> TRUE, shape |-> <<1>>,
             warnings |-> <<WarnEvent(base_name, "BLOCK quantization not supported for activations. Falling back to tensor-level quantization.")>>]
       ELSE [ok |-> TRUE, warnings |-> << >>, shape |-> default]

\* quant_args.py:341-355  QuantizationArgs.pytorch_dtype
PytorchDtype(quantization_args) ==
    IF quantization_args.type = "float"
    THEN IF quantization_args.num_bits = 8
         THEN [ok |-> TRUE, dtype |-> "float8_e4m3fn"]
         ELSE [ok |-> FALSE, error |-> "NotImplementedError: Only num_bits in (8) are supported"]
    ELSE IF quantization_args.num_bits <= 8 THEN [ok |-> TRUE, dtype |-> "int8"]
    ELSE IF quantization_args.num_bits <= 16 THEN [ok |-> TRUE, dtype |-> "int16"]
    ELSE [ok |-> TRUE, dtype |-> "int32"]

\* compressed_tensors.quantization.utils.is_fp4: a 4-bit floating spec
IsFp4(quantization_args) ==
    quantization_args.num_bits = 4 /\ quantization_args.type = "float"

\* initialize.py:220-225  the scale dtypes that are kept
ScaleDtypeAllowList == {"float16", "bfloat16", "float32", "float64"}

\* initialize.py:212-227  3. identify the scale and zero point dtype
ScaleAndZpDtype(module, quantization_args, scale_dtype) ==
    IF scale_dtype = None /\ "weight" \notin module.attrs
    THEN [ok |-> FALSE, error |-> "AttributeError: weight"]
    ELSE LET chosen == IF scale_dtype # None THEN scale_dtype ELSE module.dtype
         IN IF IsFp4(quantization_args)
            THEN [ok |-> TRUE, scale_dtype |-> "float8_e4m3fn", zp_dtype |-> "float8_e4m3fn",
                  fallback |-> FALSE]
            ELSE LET zp == PytorchDtype(quantization_args)
                 IN IF ~zp.ok THEN [ok |-> FALSE, error |-> zp.error]
                    ELSE [ok |-> TRUE,
                          scale_dtype |-> IF chosen \in ScaleDtypeAllowList
                                          THEN chosen ELSE "float16",
                          zp_dtype |-> zp.dtype,
                          fallback |-> chosen \notin ScaleDtypeAllowList]

\* torch.empty / torch.zeros of this shape raise (a negative dimension)
BadShape(shape) == \E i \in DOMAIN shape : shape[i] < 0

\* initialize.py:229-253  4. the scale, zero point and g_idx parameters
Allocate(base_name, quantization_args, weight_shape, force_zero_point, shape, dtypes) ==
    LET scale ==
            IF ~Truthy(quantization_args.dynamic)
            THEN IF BadShape(shape)
                 THEN <<RaiseEvent(base_name, "RuntimeError: negative dimension")>>
                 ELSE <<ParamEvent(base_name, "_scale", shape, dtypes.scale_dtype)>>
            ELSE << >>
        zero_point ==
            IF force_zero_point \/ ~quantization_args.symmetric
            THEN IF BadShape(shape)
                 THEN <<RaiseEvent(base_name, "RuntimeError: negative dimension")>>
                 ELSE <<ParamEvent(base_name, "_zero_point", shape, dtypes.zp_dtype)>>
            ELSE << >>
        g_idx ==
            IF quantization_args.actorder = "group"
            THEN IF weight_shape = NoShape
                 THEN <<RaiseEvent(base_name, "TypeError: weight_shape is None")>>
                 ELSE <<ParamEvent(base_name, "_g_idx", <<weight_shape[2]>>, "int32")>>
            ELSE << >>
    IN scale \o zero_point \o g_idx

\* The events of a sequence up to and including the first raise.
RECURSIVE UntilRaise(_)
UntilRaise(log) ==
    IF log = << >> THEN << >>
    ELSE IF Head(log).kind = "raise" THEN <<Head(log)>>
    ELSE <<Head(log)>> \o UntilRaise(Tail(log))

\* initialize.py:143-253  _initialize_scale_zero_point
InitializeScaleZeroPoint(module, base_name, quantization_args, weight_shape, force_zero_point, scale_dtype) ==
    IF quantization_args.dynamic = "True" THEN << >>
    ELSE LET global_scale ==
                 IF quantization_args.strategy = "tensor_group"
                 THEN <<ParamEvent(base_name, "_global_scale", <<1>>, "float32")>>
                 ELSE << >>
             expected == ExpectedShape(base_name, quantization_args, weight_shape)
             dtypes == ScaleAndZpDtype(module, quantization_args, scale_dtype)
         IN UntilRaise(
              global_scale \o expected.warnings \o
              (IF ~expected.ok THEN <<RaiseEvent(base_name, expected.error)>>
               ELSE IF ~dtypes.ok THEN <<RaiseEvent(base_name, dtypes.error)>>
               ELSE Allocate(base_name, quantization_args, weight_shape,
                             force_zero_point, expected.shape, dtypes)))

\* str.lower() on a name given as its characters.
LowerChar(c) ==
    IF \E i \in DOMAIN UpperLetters : UpperLetters[i] = c
    THEN LowerLetters[CHOOSE i \in DOMAIN UpperLetters : UpperLetters[i] = c]
    ELSE c

Lower(name) == [i \in DOMAIN name |-> LowerChar(name[i])]

\* `needle in haystack` on strings given as their characters
Contains(haystack, needle) ==
    \E start \in 0..(Len(haystack) - Len(needle)) :
        \A i \in DOMAIN needle : haystack[start + i] = needle[i]

\* mutant of IsAttentionModule: the type name is matched case-sensitively
IsAttentionModuleCaseSensitive(module) ==
    /\ Contains(module.class_name, <<"a", "t", "t", "e", "n", "t", "i", "o", "n">>)
    /\ \/ "k_proj" \in module.attrs
       \/ "v_proj" \in module.attrs
       \/ "qkv_proj" \in module.attrs

\* initialize.py:135-140  is_attention_module
IsAttentionModule(module) ==
    /\ Contains(Lower(module.class_name), <<"a", "t", "t", "e", "n", "t", "i", "o", "n">>)
    /\ \/ "k_proj" \in module.attrs
       \/ "v_proj" \in module.attrs
       \/ "qkv_proj" \in module.attrs

\* initialize.py:256-275  _initialize_attn_scales; next(module.parameters())
\* raises StopIteration on a module without parameters.
InitializeAttnScales(module) ==
    IF module.param_dtype = None
    THEN <<RaiseEvent("attn", "StopIteration")>>
    ELSE <<[kind |-> "param", role |-> "attn", name |-> "k_scale",
            shape |-> <<1>>, dtype |-> module.param_dtype],
           [kind |-> "param", role |-> "attn", name |-> "v_scale",
            shape |-> <<1>>, dtype |-> module.param_dtype]>>

\* no scheme: None for the argument, and for the module attribute
NoScheme == << >>

\* is_kv_cache_quant_scheme: the scheme is a key/value-cache-style scheme
IsKvCacheQuantScheme(scheme) == scheme.kv_cache_style

\* mutant of RoleOrder: the weight comes first
RoleOrderWeightFirst == <<"weight", "input", "output">>

\* initialize.py:91, 100, 120  the order of the three `if scheme.<role>` blocks
RoleOrder == <<"input", "weight", "output">>

\* initialize.py:89-124  the general branch: input, then weight, then output
GeneralBranch(module, scheme, force_zero_point, scale_dtype) ==
    LET input ==
            IF scheme.input_activations.present
            THEN InitializeScaleZeroPoint(module, "input", scheme.input_activations.args,
                                          NoShape, force_zero_point, scale_dtype)
            ELSE << >>
        weight ==
            IF scheme.weights.present
            THEN IF "weight" \in module.attrs
                 THEN InitializeScaleZeroPoint(
                          module, "weight", scheme.weights.args,
                          IF module.is_linear THEN module.weight_shape ELSE NoShape,
                          force_zero_point, scale_dtype)
                 ELSE <<WarnEvent("weight", "targeted for weight quantization but has no attribute weight, skipping weight quantization")>>
            ELSE << >>
        output ==
            IF scheme.output_activations.present /\ ~IsKvCacheQuantScheme(scheme)
            THEN InitializeScaleZeroPoint(module, "output", scheme.output_activations.args,
                                          NoShape, TRUE, scale_dtype)
            ELSE << >>
        of == [input |-> input, weight |-> weight, output |-> output]
    IN UntilRaise(of[RoleOrder[1]] \o of[RoleOrder[2]] \o of[RoleOrder[3]])

Raised(log) == log # << >> /\ log[Len(log)].kind = "raise"

(* The layers and calls the initializer is run on. *)

\* torch.nn.Linear and two other layer types that carry a two-dimensional weight
LinearName == <<"L", "i", "n", "e", "a", "r">>
EmbeddingName == <<"E", "m", "b", "e", "d", "d", "i", "n", "g">>
AttentionName == <<"L", "l", "a", "m", "a", "A", "t", "t", "e", "n", "t", "i", "o", "n">>
UpperAttentionName == <<"S", "D", "P", "A", "T", "T", "E", "N", "T", "I", "O", "N">>
ActName == <<"S", "i", "L", "U">>

WeightShapes == {<<rows, cols>> : rows \in 1..MaxRows, cols \in 1..MaxCols}

Layer(class_name, attrs, weight_shape, dtype, param_dtype) ==
    [class_name |-> class_name, is_linear |-> class_name = LinearName,
     attrs |-> attrs, weight_shape |-> weight_shape, dtype |-> dtype,
     param_dtype |-> param_dtype, quantization_scheme |-> NoScheme,
     quantization_status |-> None, forward_wrapped |-> FALSE]

\* layers with a weight, of every shape within the bounds
WeightLayers ==
    {Layer(name, {"weight"}, shape, "bfloat16", "bfloat16") :
        name \in {LinearName, EmbeddingName}, shape \in WeightShapes}

\* one layer of each kind the dispatch tells apart
FixtureLayers ==
    {Layer(LinearName, {"weight"}, <<2, 4>>, "float32", "float32"),
     Layer(LinearName, {"weight"}, <<2, 4>>, "int8", "int8"),
     Layer(EmbeddingName, {"weight"}, <<2, 4>>, "float16", "float16"),
     Layer(ActName, {}, NoShape, None, None),
     Layer(AttentionName, {"k_proj", "v_proj"}, NoShape, None, "bfloat16"),
     Layer(UpperAttentionName, {"qkv_proj"}, NoShape, None, None),
     Layer(AttentionName, {"weight"}, <<2, 4>>, "float16", "float16"),
     Layer(ActName, {"k_proj"}, NoShape, None, "float16")}

\* the weight specs: every accepted combination of strategy, group size,
\* block structure, dynamic and activation ordering
WeightKwargs ==
    { [DefaultKwargs EXCEPT !.strategy = s, !.group_size = g, !.dynamic = d,
                            !.actorder = a] :
        s \in Strategies, g \in {NoInt} \cup {SomeInt(n) : n \in -1..MaxGroup},
        d \in DynamicValues, a \in {None, "group"} }
    \cup { [DefaultKwargs EXCEPT !.strategy = "block", !.block_structure = b] :
        b \in {BNone, BStr(<<"2">>), BStr(<<"2", "x", "2", "x", "2">>)}
              \cup {BList(<<h, w>>) : h \in -1..2, w \in -1..2} }

Accepted(kwargsSet) ==
    {ConstructArgs(k).obj : k \in {kw \in kwargsSet : ConstructArgs(kw).ok}}

WeightArgs == Accepted(WeightKwargs)

\* a few specs for the role-by-role runs
RoleKwargs ==
    {DefaultKwargs,
     [DefaultKwargs EXCEPT !.symmetric = FALSE, !.num_bits = 16],
     [DefaultKwargs EXCEPT !.strategy = "token", !.dynamic = "True"],
     [DefaultKwargs EXCEPT !.strategy = "tensor_group", !.dynamic = "local",
                           !.num_bits = 4, !.type = "float", !.group_size = SomeInt(2)],
     [DefaultKwargs EXCEPT !.strategy = "block", !.type = "float",
                           !.block_structure = BList(<<2, 2>>)],
     [DefaultKwargs EXCEPT !.type = "float", !.num_bits = 6]}

RoleArgs == Accepted(RoleKwargs)

\* A QuantizationScheme object, with the warnings its construction emitted.
Scheme(weightsArgs, inputs, outputs, kv_cache_style) ==
    [weights |-> weightsArgs, input_activations |-> inputs,
     output_activations |-> outputs, kv_cache_style |-> kv_cache_style,
     construct_warnings |-> ConstructScheme(weightsArgs, inputs, outputs).warnings]

OptionalRole(argsSet) == {Absent} \cup {Present(a) : a \in argsSet}

\* schemes the QuantizationScheme constructor accepts
WeightOnlySchemes ==
    {Scheme(Present(w), Absent, Absent, FALSE) : w \in WeightArgs}

RoleSchemes ==
    {Scheme(w, i, o, kv) :
        <<w, i, o>> \in {t \in OptionalRole(RoleArgs) \X OptionalRole(RoleArgs)
                                \X OptionalRole(RoleArgs) :
                            ConstructScheme(t[1], t[2], t[3]).ok},
        kv \in BOOLEAN}

\* schemes with GROUP on weights and on input activations, of equal and of
\* different group sizes
GroupArgs ==
    Accepted({[DefaultKwargs EXCEPT !.strategy = "group", !.group_size = SomeInt(g)] :
                 g \in 1..MaxGroup})

GroupSchemes ==
    {Scheme(Present(w), Present(i), Absent, FALSE) : w \in GroupArgs, i \in GroupArgs}

ScaleDtypes == {None, "float32", "int8"}

Request(scheme, force_zero_point, scale_dtype) ==
    [scheme |-> scheme, force_zero_point |-> force_zero_point,
     scale_dtype |-> scale_dtype]

InitializeIdle ==
    /\ layer = None /\ request = None /\ events = << >> /\ result = "idle"

\* Before the call: a layer without quantization parameters, and the arguments.
InitializeInit ==
    /\ events = << >>
    /\ result = "ready"
    /\ \/ /\ layer \in WeightLayers
          /\ request \in {Request(<<s>>, f, None) :
                             s \in WeightOnlySchemes, f \in BOOLEAN}
       \/ /\ layer \in FixtureLayers
          /\ request \in {Request(<<s>>, f, d) :
                             s \in RoleSchemes, f \in BOOLEAN, d \in ScaleDtypes}
       \/ /\ layer = Layer(LinearName, {"weight"}, <<2, 4>>, "bfloat16", "bfloat16")
          /\ request \in {Request(<<s>>, f, None) : s \in GroupSchemes, f \in BOOLEAN}
       \/ \E l \in FixtureLayers, s \in RoleSchemes :
             /\ layer \in {l, [l EXCEPT !.quantization_scheme = <<s>>]}
             /\ request = Request(NoScheme, TRUE, None)

\* initialize.py:58-132  initialize_module_for_quantization(module, scheme,
\* force_zero_point, scale_dtype)
InitializeModuleForQuantization ==
    /\ result = "ready"
    /\ LET scheme == IF request.scheme # NoScheme THEN request.scheme
                     ELSE layer.quantization_scheme
       IN IF scheme = NoScheme
          THEN /\ events' = << >>
               /\ result' = "returned"
               /\ UNCHANGED layer
          ELSE IF IsAttentionModule(layer)
          THEN /\ events' = InitializeAttnScales(layer)
               /\ result' = IF Raised(events') THEN "raised" ELSE "returned"
               /\ UNCHANGED layer
          ELSE /\ events' = GeneralBranch(layer, scheme[1], request.force_zero_point,
                                          request.scale_dtype)
               /\ result' = IF Raised(events') THEN "raised" ELSE "returned"
               /\ layer' = IF Raised(events') THEN layer
                           ELSE [layer EXCEPT !.quantization_scheme = scheme,
                                              !.quantization_status = "initialized",
                                              !.forward_wrapped = TRUE]
    /\ UNCHANGED request
    /\ OnlyInitialize

InitializeNext == InitializeModuleForQuantization

(***************************************************************************)
(* HadamardTransform (hadamard.py)                                         *)
(***************************************************************************)

\* A matrix is the sequence of its rows; a permutation holds indices from 0.

\* x[perm]: the rows of x picked by perm
IndexRows(x, perm) == [i \in DOMAIN perm |-> x[perm[i] + 1]]

\* x[:, perm]: the columns of x picked by perm
IndexCols(x, perm) == [i \in DOMAIN x |-> [j \in DOMAIN perm |-> x[i][perm[j] + 1]]]

\* mutant of PermuteWeight: only the rows are permuted
PermuteRowsOnly(x, perm) == IndexRows(x, perm)

\* hadamard.py:101-102  weight[self.perm][:, self.perm]
PermuteWeight(x, perm) == IndexCols(IndexRows(x, perm), perm)

\* hadamard.py:105  weight.T
Transpose(x) == [j \in DOMAIN x[1] |-> [i \in DOMAIN x |-> x[i][j]]]

\* apply_transform_weight (compressed_tensors.transform.utils.matrix): a pure
\* map of the matrix and the value, by location and module type.
ApplyTransformWeight(matrix, val, location, module_type) ==
    [applied |-> matrix, to |-> val, location |-> location, module_type |-> module_type]

\* hadamard.py:96  math.sqrt(n), kept as the number it is the root of
Sqrt(n) == [sqrt_of |-> n]

\* hadamard.py:107-109  x / self._scale: a new tensor
Divide(x, scale) == [dividend |-> x, divisor |-> scale]

\* The base matrices: every 2 x 2 matrix of signs (the Hadamard matrix of
\* size 2 and what training can turn it into), the 1 x 1 matrix, the Hadamard
\* matrix of size 4 and a matrix of size 4 with pairwise different entries.
Signs == {-1, 1}
BaseMatrices ==
    {<<<<1>>>>}
    \cup {<<<<a, b>>, <<c, d>>>> : a \in Signs, b \in Signs, c \in Signs, d \in Signs}
    \cup {<<<<1, 1, 1, 1>>, <<1, -1, 1, -1>>, <<1, 1, -1, -1>>, <<1, -1, -1, 1>>>>,
          <<<<1, 2, 3, 4>>, <<5, 6, 7, 8>>, <<9, 10, 11, 12>>, <<13, 14, 15, 16>>>>}

Locations == {"input", "weight_input", "weight_output", "output"}

\* hadamard.py:84-96  HadamardTransform.__init__: weight and perm are kept by
\* reference (the storage cells 1 and 2), perm may be None.
NewHadamardTransform(matrix, hasPerm, inverse, location) ==
    [weight |-> 1, perm |-> IF hasPerm THEN 2 ELSE 0,
     args |-> [inverse |-> inverse, location |-> location],
     module_type |-> "Linear", scale |-> Sqrt(Len(matrix))]

ForwardIdle ==
    /\ storage = << >> /\ hadamard = None /\ fwdValue = None
    /\ fwdOutput = None /\ fwdState = "idle"

\* A transform as create_transform returns it, and a value to apply it to.
ForwardInit ==
    /\ fwdState = "ready"
    /\ fwdOutput = None
    /\ fwdValue \in {"v", "w"}
    /\ \E matrix \in BaseMatrices, hasPerm \in BOOLEAN, inverse \in BOOLEAN,
          location \in Locations :
          /\ hadamard = NewHadamardTransform(matrix, hasPerm, inverse, location)
          /\ storage \in {<<matrix, p>> : p \in IF hasPerm THEN RandPerms(Len(matrix))
                                                    ELSE {<< >>}}

\* hadamard.py:98-109  HadamardTransform.forward(value): indexing, transposing,
\* applying and dividing each give a new tensor; nothing is written in place.
Forward ==
    /\ fwdState = "ready"
    /\ LET base == storage[hadamard.weight]
           permuted == IF hadamard.perm # 0
                       THEN PermuteWeight(base, storage[hadamard.perm])
                       ELSE base
           oriented == IF hadamard.args.inverse THEN Transpose(permuted) ELSE permuted
       IN fwdOutput' = Divide(ApplyTransformWeight(oriented, fwdValue,
                                                   hadamard.args.location,
                                                   hadamard.module_type),
                              hadamard.scale)
    /\ fwdState' = "returned"
    /\ UNCHANGED <<storage, hadamard, fwdValue>>
    /\ OnlyForward

ForwardNext == Forward

(***************************************************************************)
(* round_to_quantized_type and FP4_E2M1_DATA.cast_to_fp4 (quant_args.py)   *)
(***************************************************************************)

\* Tensor elements are counted in twentieths: 5 is 0.25, 20 is 1.0, 120 is 6.0.
\* bound of the rounding model: the largest magnitude of an element
MaxMagnitude == 130

Abs(x) == IF x < 0 THEN 0 - x ELSE x
Sign(x) == IF x < 0 THEN -1 ELSE IF x > 0 THEN 1 ELSE 0

\* mutant of Fp4Steps: the second mask takes in its upper end, x <= 0.75
Fp4StepsOverlapping ==
    << [lo |-> 0, lo_in |-> TRUE, hi |-> 5, hi_in |-> TRUE, level |-> 0],
       [lo |-> 5, lo_in |-> FALSE, hi |-> 15, hi_in |-> TRUE, level |-> 10],
       [lo |-> 15, lo_in |-> TRUE, hi |-> 25, hi_in |-> TRUE, level |-> 20],
       [lo |-> 25, lo_in |-> FALSE, hi |-> 35, hi_in |-> FALSE, level |-> 30],
       [lo |-> 35, lo_in |-> TRUE, hi |-> 50, hi_in |-> TRUE, level |-> 40],
       [lo |-> 50, lo_in |-> FALSE, hi |-> 70, hi_in |-> FALSE, level |-> 60],
       [lo |-> 70, lo_in |-> TRUE, hi |-> 100, hi_in |-> TRUE, level |-> 80],
       [lo |-> 100, lo_in |-> FALSE, hi |-> -1, hi_in |-> FALSE, level |-> 120] >>

\* quant_args.py:58-65  the masked assignments of cast_to_fp4, in their order;
\* hi = -1 stands for a mask without an upper end.
Fp4Steps ==
    << [lo |-> 0, lo_in |-> TRUE, hi |-> 5, hi_in |-> TRUE, level |-> 0],
       [lo |-> 5, lo_in |-> FALSE, hi |-> 15, hi_in |-> FALSE, level |-> 10],
       [lo |-> 15, lo_in |-> TRUE, hi |-> 25, hi_in |-> TRUE, level |-> 20],
       [lo |-> 25, lo_in |-> FALSE, hi |-> 35, hi_in |-> FALSE, level |-> 30],
       [lo |-> 35, lo_in |-> TRUE, hi |-> 50, hi_in |-> TRUE, level |-> 40],
       [lo |-> 50, lo_in |-> FALSE, hi |-> 70, hi_in |-> FALSE, level |-> 60],
       [lo |-> 70, lo_in |-> TRUE, hi |-> 100, hi_in |-> TRUE, level |-> 80],
       [lo |-> 100, lo_in |-> FALSE, hi |-> -1, hi_in |-> FALSE, level |-> 120] >>

\* the boolean mask of one step at one element
InMask(step, x) ==
    /\ IF step.lo_in THEN x >= step.lo ELSE x > step.lo
    /\ step.hi = -1 \/ (IF step.hi_in THEN x <= step.hi ELSE x < step.hi)

\* x[mask] = level: the assignment of one step, in place, on every element
AssignStep(step, x) == [i \in DOMAIN x |-> IF InMask(step, x[i]) THEN step.level ELSE x[i]]

\* the steps from k on, one after the other, each on what the one before left
RECURSIVE AssignFrom(_, _)
AssignFrom(k, x) ==
    IF k > Len(Fp4Steps) THEN x
    ELSE AssignFrom(k + 1, AssignStep(Fp4Steps[k], x))

\* quant_args.py:55-66  cast_to_fp4(x): sign and abs are new tensors, the
\* masked assignments write into the abs tensor, the product is a new tensor.
CastToFp4(x) ==
    LET sign == [i \in DOMAIN x |-> Sign(x[i])]
        magnitude == AssignFrom(1, [i \in DOMAIN x |-> Abs(x[i])])
    IN [i \in DOMAIN x |-> magnitude[i] * sign[i]]

\* torch.round: to the nearest integer, halves to the even one
TorchRound(x) ==
    LET whole(v) == LET down == (v \div 20) * 20
                        rest == v - down
                    IN IF rest < 10 THEN down
                       ELSE IF rest > 10 THEN down + 20
                       ELSE IF (v \div 20) % 2 = 0 THEN down ELSE down + 20
    IN [i \in DOMAIN x |-> whole(x[i])]

\* tensor.to(torch.float8_e4m3fn): each element in the 8-bit representation
CastToFp8(x) == [i \in DOMAIN x |-> [float8_e4m3fn |-> x[i]]]

\* quant_args.py:362-386  round_to_quantized_type(tensor, args), the dtype of
\* the result being that of the input
RoundToQuantizedType(x, quantization_args) ==
    IF quantization_args.type = "float"
    THEN IF quantization_args.num_bits = 8
         THEN [ok |-> TRUE, rounded |-> CastToFp8(x)]
         ELSE IF quantization_args.num_bits = 4
         THEN [ok |-> TRUE, rounded |-> CastToFp4(x)]
         ELSE [ok |-> FALSE, error |-> "NotImplementedError: Only num_bits in (4, 8) are supported"]
    ELSE IF quantization_args.type = "int"
    THEN [ok |-> TRUE, rounded |-> TorchRound(x)]
    ELSE [ok |-> FALSE, error |-> "ValueError: Invalid quantization type"]

\* the tensors rounded: every one-element tensor within the bound, and a few
\* of three elements
TensorInputs ==
    {<<x>> : x \in (0 - MaxMagnitude)..MaxMagnitude}
    \cup {<<6, 38, 110>>, <<-6, -38, -110>>, <<15, 15, -25>>, <<0, 5, -100>>}

RoundArgs ==
    {[num_bits |-> 4, type |-> "float"], [num_bits |-> 8, type |-> "float"],
     [num_bits |-> 6, type |-> "float"], [num_bits |-> 8, type |-> "int"]}

RoundIdle ==
    /\ tensor = None /\ roundArgs = None /\ rounded = None /\ roundState = "idle"

RoundInit ==
    /\ tensor \in TensorInputs
    /\ roundArgs \in RoundArgs
    /\ rounded = None
    /\ roundState = "ready"

\* One call of round_to_quantized_type; the caller's tensor is read only.
Round ==
    /\ roundState = "ready"
    /\ rounded' = RoundToQuantizedType(tensor, roundArgs)
    /\ roundState' = IF rounded'.ok THEN "returned" ELSE "raised"
    /\ UNCHANGED <<tensor, roundArgs>>
    /\ OnlyRound

RoundNext == Round

(***************************************************************************)
(* Claims                                                                  *)
(***************************************************************************)

\* The cache key the factory documents: (transform size, weight dtype,
\* offload/storage device) of the module a transform was created for.
KeyTriple(module) == <<module.size, module.dtype, module.offload>>

\* The matrices constructed so far whose (size, dtype, storage device) is k.
BuiltFor(k) ==
    {i \in DOMAIN built : <<built[i].size, built[i].dtype, built[i].device>> = k}

\* C1: for one factory, two returned transforms reference the identical
\* base matrix iff their cache keys (size, dtype, storage device) are equal;
\* the matrix of a key is constructed at most once, and the matrix handed out
\* for a key is still the one cached under it (never replaced), also when a
\* later call has the same key and another execution device.
C1_SharedIffSameKey ==
    /\ \A a, b \in transforms :
          (a.weight = b.weight) <=> (KeyTriple(a.module) = KeyTriple(b.module))
    /\ \A m \in Modules : Cardinality(BuiltFor(KeyTriple(m))) <= 1
    /\ \A a \in transforms :
          /\ KeyTriple(a.module) \in DOMAIN weights
          /\ weights[KeyTriple(a.module)] = a.weight
          /\ BuiltFor(KeyTriple(a.module)) = {a.weight}

\* C1 witness: two transforms of one key made on different execution devices
\* share their matrix, and a third of another size has a distinct one.
C1_Witness ==
    \E a, b, c \in transforms :
        /\ KeyTriple(a.module) = KeyTriple(b.module)
        /\ a.module.exec # b.module.exec
        /\ a.weight = b.weight
        /\ c.module.size # a.module.size
        /\ c.weight # a.weight

Constructed == outcome.state = "done"

\* The constructor call returned an object.
ConstructedOk == Constructed /\ outcome.result.ok

\* C4: with strategy unset, the normalized strategy is TENSOR when group_size
\* is absent, GROUP when it is positive and CHANNEL when it is -1, and the
\* construction fails for every other group_size; no constructed object has
\* an unset strategy.
C4_StrategyInferred ==
    /\ ConstructedOk => outcome.result.obj.strategy \in Strategies
    /\ (Constructed /\ raw.strategy = None) =>
          LET g == raw.group_size
          IN /\ (outcome.result.ok /\ g = NoInt)
                    => outcome.result.obj.strategy = "tensor"
             /\ (outcome.result.ok /\ g # NoInt /\ g[1] > 0)
                    => outcome.result.obj.strategy = "group"
             /\ (outcome.result.ok /\ g # NoInt /\ g[1] = -1)
                    => outcome.result.obj.strategy = "channel"
             /\ (g # NoInt /\ g[1] <= 0 /\ g[1] # -1) => ~outcome.result.ok

\* C4 witness: strategy unset and group_size = -1 constructs a CHANNEL spec.
C4_Witness ==
    /\ ConstructedOk
    /\ raw.strategy = None /\ raw.group_size = SomeInt(-1)
    /\ outcome.result.obj.strategy = "channel"

\* C5 (as claimed): a constructed object with strategy GROUP or TENSOR_GROUP
\* has a group_size that is set and positive, and a constructed object with a
\* positive group_size has strategy GROUP or TENSOR_GROUP.
C5_GroupSizePositive ==
    ConstructedOk =>
        LET obj == outcome.result.obj
        IN /\ obj.strategy \in {"group", "tensor_group"}
                => (obj.group_size # NoInt /\ obj.group_size[1] > 0)
           /\ (obj.group_size # NoInt /\ obj.group_size[1] > 0)
                => obj.strategy \in {"group", "tensor_group"}

\* C6 (as claimed): a constructed object has block_structure absent or a list
\* of exactly two positive integers; every other shape is rejected.
C6_BlockStructureShape ==
    ConstructedOk =>
        LET bs == outcome.result.obj.block_structure
        IN \/ bs.kind = "none"
           \/ /\ bs.kind = "list"
              /\ Len(bs.items) = 2
              /\ \A i \in DOMAIN bs.items : bs.items[i] > 0

\* C7: a truthy dynamic constructs only with a normalized strategy among
\* TOKEN, TENSOR, TENSOR_GROUP, GROUP, and LOCAL only with TENSOR_GROUP; in
\* particular dynamic=True with CHANNEL or BLOCK and dynamic=LOCAL with GROUP
\* raise.
C7_DynamicStrategies ==
    (Constructed /\ Truthy(raw.dynamic)) =>
        /\ outcome.result.ok =>
              /\ outcome.result.obj.strategy \in {"token", "tensor", "tensor_group", "group"}
              /\ raw.dynamic = "local" => outcome.result.obj.strategy = "tensor_group"
        /\ raw.strategy \in {"channel", "block"} => ~outcome.result.ok
        /\ (raw.dynamic = "local" /\ raw.strategy = "group") => ~outcome.result.ok

\* C7 witness: dynamic=LOCAL constructs with TENSOR_GROUP.
C7_Witness ==
    /\ ConstructedOk
    /\ raw.dynamic = "local"
    /\ outcome.result.obj.strategy = "tensor_group"

HeldSlots ==
    {sl \in (DOMAIN schemes) \X Roles : schemes[sl[1]][sl[2]] # 0}

\* The role spec the template of a preset key holds, as first constructed.
OriginalRole(key, role) ==
    IF role \in DOMAIN PRESET_SCHEMES[key]
    THEN Present(TemplateArgs[PRESET_SCHEMES[key][role]])
    ELSE Absent

W8A16Names == {<<"w", "8", "a", "1", "6">>, <<"W", "8", "A", "1", "6">>, <<"W", "8", "a", "1", "6">>}
BogusNames == {<<"B", "O", "G", "U", "S">>}

\* C3: whatever lookups (in any letter case) and mutations of returned
\* schemes and their QuantizationArgs have happened, the preset templates are
\* unchanged, no returned scheme shares a QuantizationArgs object with
\* another scheme or with a template, and every lookup returns role specs
\* equal to the original template (W8A16 in any case: CHANNEL weights, no
\* input activations); only a name that is no preset raises.
C3_PresetsNeverMutated ==
    /\ \A id \in TemplateIds : heap[id] = TemplateArgs[id]
    /\ \A sl \in HeldSlots :
          /\ schemes[sl[1]][sl[2]] \notin TemplateIds
          /\ \A other \in HeldSlots \ {sl} :
                schemes[other[1]][other[2]] # schemes[sl[1]][sl[2]]
    /\ lastReturn.state = "returned" =>
          /\ \A r \in Roles :
                lastReturn.value[r] = OriginalRole(Upper(lastReturn.name), r)
          /\ lastReturn.name \in W8A16Names =>
                /\ lastReturn.value["weights"].present
                /\ lastReturn.value["weights"].args.strategy = "channel"
                /\ ~lastReturn.value["input_activations"].present
    /\ lastReturn.state = "raised" =>
          /\ lastReturn.name \in BogusNames
          /\ lastReturn.available = DOMAIN PRESET_SCHEMES

\* C3 witness: a returned scheme's weights were mutated, and a later lookup
\* of "w8a16" in lower case still returned the CHANNEL template.
C3_Witness ==
    /\ lastReturn.state = "returned"
    /\ lastReturn.name = <<"w", "8", "a", "1", "6">>
    /\ lastReturn.scheme = 2
    /\ lastReturn.value["weights"].args.strategy = "channel"
    /\ schemes[1].weights # 0
    /\ heap[schemes[1].weights].strategy = "token"
    /\ Upper(<<"w", "8", "a", "1", "6">>) \in DOMAIN PRESET_SCHEMES
    /\ mutations > 0

\* The scheme the call works with: the argument, else the one on the module.
SchemeInForce ==
    IF request.scheme # NoScheme THEN request.scheme[1]
    ELSE layer.quantization_scheme[1]

\* initialize_module_for_quantization has run on a non-attention layer that
\* has a weight, with a scheme that quantizes weights.
WeightCall ==
    /\ result \in {"returned", "raised"}
    /\ (request.scheme # NoScheme \/ layer.quantization_scheme # NoScheme)
    /\ ~IsAttentionModule(layer)
    /\ "weight" \in layer.attrs
    /\ SchemeInForce.weights.present

\* The shapes of the parameters attached under a name.
ShapesOf(name) ==
    {events[i].shape : i \in {j \in DOMAIN events :
                                 events[j].kind = "param" /\ events[j].name = name}}

RaggedText == "Block quantization: tensor shape does not divide evenly by block structure"

RaggedWarned ==
    \E i \in DOMAIN events : events[i].kind = "warn" /\ events[i].text = RaggedText

\* C9: for every non-attention layer with a weight of shape (out, in) and
\* every static weight spec, initialize attaches weight_scale with shape
\* (out, 1) for CHANNEL and (out, max(ceil(in / group_size), 1)) for GROUP
\* and TENSOR_GROUP, whatever the type of the layer.
C9_WeightScaleShape ==
    WeightCall /\ SchemeInForce.weights.args.dynamic = "False" =>
        LET args == SchemeInForce.weights.args
            out == layer.weight_shape[1]
            in == layer.weight_shape[2]
        IN /\ args.strategy = "channel" => ShapesOf("weight_scale") = {<<out, 1>>}
           /\ args.strategy \in {"group", "tensor_group"} =>
                 /\ args.group_size # NoInt
                 /\ args.group_size[1] # 0
                 /\ ShapesOf("weight_scale")
                      = {<<out, Max(CeilDiv(in, args.group_size[1]), 1)>>}

\* C10: for a BLOCK weight spec with block_structure (bh, bw) on a layer whose
\* weight ends in the dimensions (rows, cols), initialize attaches weight_scale
\* with shape (ceil(rows / bh), ceil(cols / bw)); it emits the ragged-division
\* warning exactly when rows is not a multiple of bh or cols not one of bw,
\* and the warning does not keep the parameters from being attached.
C10_BlockScaleShape ==
    /\ WeightCall
    /\ SchemeInForce.weights.args.strategy = "block"
    /\ SchemeInForce.weights.args.block_structure.kind = "list"
    /\ Len(SchemeInForce.weights.args.block_structure.items) = 2
    => LET items == SchemeInForce.weights.args.block_structure.items
           rows == layer.weight_shape[1]
           cols == layer.weight_shape[2]
       IN /\ items[1] # 0
          /\ items[2] # 0
          /\ ShapesOf("weight_scale")
               = {<<CeilDiv(rows, items[1]), CeilDiv(cols, items[2])>>}
          /\ RaggedWarned <=> (Ragged(rows, items[1]) \/ Ragged(cols, items[2]))

\* A scheme was given or was found on the module, and the call is over.
ResolvedCall ==
    /\ result \in {"returned", "raised"}
    /\ (request.scheme # NoScheme \/ layer.quantization_scheme # NoScheme)

\* Attention-style as the specification words it: the type name contains
\* "attention" in any letter case, and a key, value or fused projection exists.
AttentionStyle ==
    /\ \E start \in 0..(Len(layer.class_name) - 9) :
          Lower(SubSeq(layer.class_name, start + 1, start + 9))
             = <<"a", "t", "t", "e", "n", "t", "i", "o", "n">>
    /\ layer.attrs \cap {"k_proj", "v_proj", "qkv_proj"} # {}

IsParam(e) == e.kind = "param"

\* The parameters the call attached, in the order of attachment.
Attached == SelectSeq(events, IsParam)

AttachedNames == {Attached[i].name : i \in DOMAIN Attached}

OnlyKvScales ==
    /\ Len(Attached) = 2
    /\ AttachedNames = {"k_scale", "v_scale"}
    /\ \A i \in DOMAIN Attached : Attached[i].shape = <<1>>

MissingWeightText == "targeted for weight quantization but has no attribute weight, skipping weight quantization"

Static(role) == role.present /\ role.args.dynamic = "False"

RoleNames == {"weight", "input", "output"}

\* The parameters attached for a role, in the order of attachment.
AttachedFor(base_name) ==
    {Attached[i].name : i \in {j \in DOMAIN Attached : Attached[j].role = base_name}}

\* C12: on a non-attention layer without a weight attribute, with a scheme
\* that defines weights and a static input or output spec, and without a
\* scale_dtype override, initialize does not fail: it warns about the missing
\* weight, attaches no weight parameter, attaches the static parameters of the
\* other roles and stamps the layer with the scheme and INITIALIZED.
C12_MissingWeightNonFatal ==
    /\ ResolvedCall
    /\ ~AttentionStyle
    /\ "weight" \notin layer.attrs
    /\ request.scale_dtype = None
    /\ SchemeInForce.weights.present
    /\ (Static(SchemeInForce.input_activations) \/ Static(SchemeInForce.output_activations))
    => /\ result = "returned"
       /\ \E i \in DOMAIN events :
             events[i].kind = "warn" /\ events[i].text = MissingWeightText
       /\ AttachedFor("weight") = {}
       /\ Static(SchemeInForce.input_activations) => "input_scale" \in AttachedNames
       /\ Static(SchemeInForce.output_activations) /\ ~SchemeInForce.kv_cache_style
             => "output_scale" \in AttachedNames
       /\ layer.quantization_status = "initialized"
       /\ layer.quantization_scheme = <<SchemeInForce>>

\* The matrix C13 describes: H[p][:, p] when a permutation is set, else H,
\* then its transpose when args.inverse is set.
C13Matrix ==
    LET H == storage[hadamard.weight]
        n == Len(H)
        p == storage[hadamard.perm]
        M == IF hadamard.perm # 0
             THEN [i \in 1..n |-> [j \in 1..n |-> H[p[i] + 1][p[j] + 1]]]
             ELSE H
    IN IF hadamard.args.inverse
       THEN [i \in 1..n |-> [j \in 1..n |-> M[j][i]]]
       ELSE M

C13Result ==
    fwdState = "returned" =>
        /\ fwdOutput.dividend.applied = C13Matrix
        /\ fwdOutput.dividend.to = fwdValue
        /\ fwdOutput.divisor = [sqrt_of |-> Len(storage[hadamard.weight])]

\* C13: forward applies M = H[p][:, p] (the same p on rows and columns) when
\* a permutation is set, else H, transposed when args.inverse is set, to the
\* value and divides by sqrt(n); the shared base matrix and permutation are
\* left as they were.
C13_ForwardMatrix ==
    /\ []C13Result
    /\ [][storage' = storage /\ hadamard' = hadamard]_vars

\* forward has returned for an inverse transform with a permutation that is
\* not the identity on a matrix that is not symmetric.
C13_Witness ==
    /\ fwdState = "returned"
    /\ hadamard.args.inverse
    /\ hadamard.perm # 0
    /\ \E i \in DOMAIN storage[hadamard.perm] : storage[hadamard.perm][i] # i - 1
    /\ Transpose(storage[hadamard.weight]) # storage[hadamard.weight]
    /\ Len(storage[hadamard.weight]) = 4

\* The level C14 gives a magnitude (in twentieths): [0, 0.25] -> 0,
\* (0.25, 0.75) -> 0.5, [0.75, 1.25] -> 1, (1.25, 1.75) -> 1.5,
\* [1.75, 2.5] -> 2, (2.5, 3.5) -> 3, [3.5, 5.0] -> 4, (5.0, inf) -> 6.
C14Level(m) ==
    IF m <= 5 THEN 0
    ELSE IF m < 15 THEN 10
    ELSE IF m <= 25 THEN 20
    ELSE IF m < 35 THEN 30
    ELSE IF m <= 50 THEN 40
    ELSE IF m < 70 THEN 60
    ELSE IF m <= 100 THEN 80
    ELSE 120

C14Result ==
    roundState = "returned" /\ roundArgs = [num_bits |-> 4, type |-> "float"] =>
        \A i \in DOMAIN tensor :
            LET m == Abs(tensor[i])
                hits == {k \in DOMAIN Fp4Steps : InMask(Fp4Steps[k], m)}
            IN /\ rounded.rounded[i] = Sign(tensor[i]) * C14Level(m)
               /\ Cardinality(hits) = 1
               /\ \A k \in hits :
                     /\ Fp4Steps[k].level = C14Level(m)
                     /\ \A later \in DOMAIN Fp4Steps :
                           later > k => ~InMask(Fp4Steps[later], Fp4Steps[k].level)

\* C14: with a FLOAT 4-bit spec every element x becomes sign(x) times the
\* level its magnitude selects through the eight intervals; every magnitude
\* lies in exactly one mask, a level once assigned is not picked up by a
\* later mask, and the caller's tensor is not modified.
C14_Fp4Levels ==
    /\ []C14Result
    /\ [][tensor' = tensor]_vars

\* 0.3, 1.9 and 5.5 have been rounded to 0.5, 2.0 and 6.0.
C14_Witness ==
    /\ roundState = "returned"
    /\ roundArgs = [num_bits |-> 4, type |-> "float"]
    /\ tensor = <<6, 38, 110>>
    /\ rounded.rounded = <<10, 40, 120>>

\* The spec of a role, by the prefix of its parameters.
RoleSpec(base_name) ==
    CASE base_name = "weight" -> SchemeInForce.weights
      [] base_name = "input" -> SchemeInForce.input_activations
      [] base_name = "output" -> SchemeInForce.output_activations

\* The call has run on a non-attention layer.
GeneralCall == ResolvedCall /\ ~AttentionStyle

\* The role is one the general branch hands to _initialize_scale_zero_point.
Processed(base_name) ==
    /\ RoleSpec(base_name).present
    /\ base_name = "weight" => "weight" \in layer.attrs
    /\ base_name = "output" => ~SchemeInForce.kv_cache_style

\* C15 as stated: a role with dynamic True gets no parameter at all; a role
\* with dynamic False or LOCAL gets its `{role}_scale`.
C15_ScaleUnlessFullyDynamic ==
    GeneralCall =>
        \A base_name \in RoleNames :
            RoleSpec(base_name).present =>
                IF RoleSpec(base_name).args.dynamic = "True"
                THEN AttachedFor(base_name) = {}
                ELSE base_name \o "_scale" \in AttachedNames

\* C15 amended: a role with dynamic True gets no parameter at all; a role
\* with dynamic LOCAL gets no `{role}_scale` either, its static component is
\* `{role}_global_scale`; `{role}_scale` is attached only for dynamic False,
\* and then in every call that returns and did not skip the role.
C15_ScaleOnlyWhenStatic ==
    GeneralCall =>
        \A base_name \in RoleNames :
            RoleSpec(base_name).present =>
                LET dynamic == RoleSpec(base_name).args.dynamic
                IN /\ dynamic = "True" => AttachedFor(base_name) = {}
                   /\ dynamic = "local" =>
                         /\ base_name \o "_scale" \notin AttachedNames
                         /\ result = "returned" /\ Processed(base_name)
                               => base_name \o "_global_scale" \in AttachedNames
                   /\ dynamic = "False" /\ result = "returned" /\ Processed(base_name)
                         => base_name \o "_scale" \in AttachedNames
                   /\ base_name \o "_scale" \in AttachedNames => dynamic = "False"

\* One call that returned with a static weight role, a LOCAL input role and
\* a fully dynamic output role.
C15_Witness ==
    /\ GeneralCall
    /\ result = "returned"
    /\ Static(SchemeInForce.weights)
    /\ "weight_scale" \in AttachedNames
    /\ SchemeInForce.input_activations.present
    /\ SchemeInForce.input_activations.args.dynamic = "local"
    /\ AttachedFor("input") = {"input_global_scale"}
    /\ SchemeInForce.output_activations.present
    /\ SchemeInForce.output_activations.args.dynamic = "True"
    /\ AttachedFor("output") = {}

\* C16: for every role that initialize processes with a spec that is not
\* fully dynamic, `{role}_zero_point` is attached exactly when the
\* force_zero_point argument of the call is true or the spec is asymmetric
\* (so never for a symmetric spec with force_zero_point = false, in any of
\* the three roles), and an attached scale and zero-point have one shape.
C16_ZeroPointIffForcedOrAsymmetric ==
    GeneralCall /\ result = "returned" =>
        \A base_name \in RoleNames :
            Processed(base_name) /\ RoleSpec(base_name).args.dynamic # "True" =>
                /\ base_name \o "_zero_point" \in AttachedNames
                      <=> (request.force_zero_point \/ ~RoleSpec(base_name).args.symmetric)
                /\ \A s \in ShapesOf(base_name \o "_scale"),
                      z \in ShapesOf(base_name \o "_zero_point") : s = z

\* Every event of one role comes before every event of a later role, for the
\* roles in the given order.
EventsFollow(order) ==
    \A i, j \in DOMAIN events :
        i < j =>
            \A a, b \in DOMAIN order :
                events[i].role = order[a] /\ events[j].role = order[b] => a <= b

RolesSeen == {events[i].role : i \in DOMAIN events}

\* C17 as stated: within one call on a non-attention layer, whatever the
\* weight spec causes comes before whatever the input spec causes, which
\* comes before whatever the output spec causes.
C17_WeightsInputOutput ==
    GeneralCall => EventsFollow(<<"weight", "input", "output">>)

\* C17 amended: the fixed order is input activations, then weights, then
\* output activations.
C17_InputWeightsOutput ==
    GeneralCall => EventsFollow(<<"input", "weight", "output">>)

\* A call that attached parameters for all three roles.
C17_Witness ==
    /\ GeneralCall
    /\ result = "returned"
    /\ RolesSeen = {"input", "weight", "output"}
    /\ {"input_scale", "weight_scale", "output_scale"} \subseteq AttachedNames

\* C18: with randomize set, all transforms on one base-matrix instance hold
\* the same permutation object, at most one permutation is drawn per matrix
\* instance, and each is a reordering of exactly 0..n-1 for the matrix's
\* leading dimension n; without randomize no transform has a permutation and
\* the generator is never advanced.
C18_OnePermutationPerMatrix ==
    IF randomize
    THEN /\ \A a, b \in transforms : a.weight = b.weight => a.perm = b.perm
         /\ \A a \in transforms :
               /\ a.perm \in DOMAIN permsBuilt
               /\ permsBuilt[a.perm].weight = a.weight
         /\ \A i, j \in DOMAIN permsBuilt :
               permsBuilt[i].weight = permsBuilt[j].weight => i = j
         /\ generator = Len(permsBuilt)
         /\ \A i \in DOMAIN permsBuilt :
               LET n == built[permsBuilt[i].weight].size
                   data == permsBuilt[i].data
               IN /\ Len(data) = n
                  /\ {data[k] : k \in DOMAIN data} = 0..(n - 1)
    ELSE /\ \A a \in transforms : a.perm = None
         /\ generator = 0
         /\ permsBuilt = << >>

\* Two transforms share a matrix and its permutation, a third transform on
\* another matrix has a permutation of its own.
C18_Witness ==
    /\ randomize
    /\ \E a, b, c \in transforms :
          /\ a # b
          /\ a.weight = b.weight /\ a.perm = b.perm
          /\ c.weight # a.weight /\ c.perm # a.perm
    /\ generator = 2

BlockFallbackText == "BLOCK quantization not supported for activations. Falling back to tensor-level quantization."

\* The warning a silent dtype fallback would have to surface.
DtypeFallbackText == "scale dtype is not a supported floating type, falling back to float16"

Warned(base_name, text) ==
    \E i \in DOMAIN events :
        events[i].kind = "warn" /\ events[i].role = base_name /\ events[i].text = text

\* The call got as far as the role.
Reached(base_name) ==
    /\ Processed(base_name)
    /\ result = "returned" \/ \E i \in DOMAIN events : events[i].role = base_name

\* The block grid of the weight role has ragged trailing blocks.
RaggedApplied ==
    /\ Reached("weight")
    /\ layer.is_linear
    /\ RoleSpec("weight").args.strategy = "block"
    /\ RoleSpec("weight").args.block_structure.kind = "list"
    /\ LET items == RoleSpec("weight").args.block_structure.items
       IN /\ Len(items) = 2
          /\ items[1] # 0 /\ items[2] # 0
          /\ Ragged(layer.weight_shape[1], items[1]) \/ Ragged(layer.weight_shape[2], items[2])

\* BLOCK was asked for where no weight shape is at hand: one element is used.
BlockFallbackApplied(base_name) ==
    /\ Reached(base_name)
    /\ RoleSpec(base_name).args.strategy = "block"
    /\ base_name # "weight" \/ ~layer.is_linear

\* The scale of the role was attached as float16 in place of the dtype chosen.
DtypeFallbackApplied(base_name) ==
    /\ Processed(base_name)
    /\ ~IsFp4(RoleSpec(base_name).args)
    /\ (IF request.scale_dtype # None THEN request.scale_dtype ELSE layer.dtype)
          \notin {"float16", "bfloat16", "float32", "float64"}
    /\ \E i \in DOMAIN Attached :
          /\ Attached[i].name = base_name \o "_scale"
          /\ Attached[i].dtype = "float16"

\* Weights and input activations are both GROUP, with different group sizes.
GroupMismatch ==
    /\ SchemeInForce.weights.present /\ SchemeInForce.input_activations.present
    /\ SchemeInForce.weights.args.strategy = "group"
    /\ SchemeInForce.input_activations.args.strategy = "group"
    /\ SchemeInForce.weights.args.group_size # SchemeInForce.input_activations.args.group_size

WarnedFallbacks ==
    /\ RaggedApplied => Warned("weight", RaggedText)
    /\ \A base_name \in RoleNames :
          BlockFallbackApplied(base_name) => Warned(base_name, BlockFallbackText)
    /\ GroupMismatch => SchemeInForce.construct_warnings # << >>
    \* a warning is not an error: the role that warned is attached when the call returns
    /\ \A base_name \in RoleNames :
          (result = "returned" /\ (Warned(base_name, RaggedText)
                                     \/ Warned(base_name, BlockFallbackText)))
             => base_name \o "_scale" \in AttachedNames

\* C19 as stated: each of the four degradations (ragged block division, BLOCK
\* for a non-weight role, scale dtype falling back to float16, differing
\* GROUP sizes on weights and inputs) surfaces a warning whenever its
\* fallback is applied, and none of them raises.
C19_EveryFallbackWarns ==
    GeneralCall =>
        /\ WarnedFallbacks
        /\ \A base_name \in RoleNames :
              DtypeFallbackApplied(base_name) => Warned(base_name, DtypeFallbackText)

\* C19 amended: ragged block division, BLOCK without a weight shape and
\* differing GROUP sizes each surface a warning whenever the fallback is
\* applied, and the role is still attached when the call returns; the
\* fallback of the scale dtype to float16 is applied without any warning.
C19_FallbacksWarnButDtype ==
    GeneralCall =>
        /\ WarnedFallbacks
        /\ \A base_name \in RoleNames :
              DtypeFallbackApplied(base_name) =>
                 \A i \in DOMAIN events :
                    events[i].kind = "warn" /\ events[i].role = base_name
                       => events[i].text \in {RaggedText, BlockFallbackText}

\* Each of the four fallbacks has been applied in some call; this one is the
\* silent dtype fallback next to a warned BLOCK fallback on the same role.
C19_Witness ==
    /\ GeneralCall
    /\ result = "returned"
    /\ DtypeFallbackApplied("input")
    /\ BlockFallbackApplied("input")
    /\ Warned("input", BlockFallbackText)

C19_WitnessRagged == GeneralCall /\ result = "returned" /\ RaggedApplied
C19_WitnessGroup == GeneralCall /\ result = "returned" /\ GroupMismatch

(***************************************************************************)
(* Specifications                                                          *)
(***************************************************************************)

ArgsIdle == raw = None /\ outcome = [state |-> "idle"]

InitFactory == FactoryInit /\ ArgsIdle /\ PresetIdle /\ InitializeIdle /\ ForwardIdle /\ RoundIdle

SpecFactory == InitFactory /\ [][FactoryNext]_vars

InitArgs == ArgsInit /\ FactoryIdle /\ PresetIdle /\ InitializeIdle /\ ForwardIdle /\ RoundIdle

SpecArgs == InitArgs /\ [][ArgsNext]_vars

InitPreset == PresetInit /\ FactoryIdle /\ ArgsIdle /\ InitializeIdle /\ ForwardIdle /\ RoundIdle

SpecPreset == InitPreset /\ [][PresetNext]_vars

InitInitialize == InitializeInit /\ FactoryIdle /\ ArgsIdle /\ PresetIdle /\ ForwardIdle /\ RoundIdle

SpecInitialize == InitInitialize /\ [][InitializeNext]_vars

InitForward == ForwardInit /\ FactoryIdle /\ ArgsIdle /\ PresetIdle /\ InitializeIdle /\ RoundIdle

SpecForward == InitForward /\ [][ForwardNext]_vars

InitRound == RoundInit /\ FactoryIdle /\ ArgsIdle /\ PresetIdle /\ InitializeIdle /\ ForwardIdle

SpecRound == InitRound /\ [][RoundNext]_vars

====
